---- MODULE Spec2Model ----
(***************************************************************************)
(* Model of the songs backend (Express + Mongoose + Cloudinary + multer).  *)
(*                                                                         *)
(* The Metadata Store (MongoDB) and the Object Storage (Cloudinary) are    *)
(* external collaborators: every call to one of them is a single atomic   *)
(* step of the service that may succeed or fail.  Request handlers are    *)
(* async functions: each one runs from an await to the next await as one  *)
(* step, and the steps of concurrent requests interleave.                 *)
(***************************************************************************)
EXTENDS Integers, Sequences, FiniteSets, TLC

(***************************************************************************)
(* Bounds of the model.                                                    *)
(***************************************************************************)
MaxReqs == 2        \* connections (requests in flight) at any moment
MaxUploads == 1     \* uploads handed to the Object Storage over a run
MaxPlays == 2       \* play-count increments applied to the store over a run

Conns == 1..MaxReqs

(***************************************************************************)
(* Strings.  A string is its text, the length of that text, and the amount *)
(* of leading/trailing white space around it; an absent (undefined) value  *)
(* is the empty sequence, a present one a one-element sequence.            *)
(***************************************************************************)
Str(text, len, ws) == [text |-> text, len |-> len, ws |-> ws]

StrLen(s) == s.len + s.ws

\* String.prototype.trim / the schema's trim: true setter
Trim(s) == [s EXCEPT !.ws = 0]

\* JavaScript truthiness of an optional string: undefined and "" are falsy
Truthy(o) == o # <<>> /\ StrLen(o[1]) > 0

Unknown == Str("Unknown", 7, 0)

MaxTitleLen == 100

FileSizeLimit == 25 * 1024 * 1024

AllowedTypes == {"audio/mpeg", "audio/wav", "audio/mp3", "audio/aac"}

(***************************************************************************)
(* Identifiers.  A route parameter :id is a string, given by its length,   *)
(* whether it is all hexadecimal digits, and the ObjectId number it casts  *)
(* to.  The store's own ObjectIds are 24 hexadecimal digits.               *)
(***************************************************************************)
IdStr(n, len, hex) == [n |-> n, len |-> len, hex |-> hex]

Oid(n) == IdStr(n, 24, TRUE)

\* a check that lets every string through
isValidAny(id) == TRUE

\* mongoose.Types.ObjectId.isValid on a string: 24 hex digits, or any
\* string of 12 characters
isValid(id) == (id.len = 24 /\ id.hex) \/ id.len = 12

NoId == IdStr(0, 0, FALSE)

(***************************************************************************)
(* Inputs of the model.                                                    *)
(***************************************************************************)
NoTitle == <<>>
EmptyTitle == <<Str("", 0, 0)>>
BlankTitle == <<Str("", 0, 2)>>
TestTitle == <<Str("Test", 4, 2)>>
FullTitle == <<Str("Full", MaxTitleLen, 0)>>
LongTitle == <<Str("Long", MaxTitleLen + 1, 0)>>

NoArtist == <<>>
Band == <<Str("Band", 4, 0)>>

File(fieldname, mimetype, size) ==
    [fieldname |-> fieldname, mimetype |-> mimetype, size |-> size]

NoFile == <<>>
Mp3File == <<File("song", "audio/mpeg", 1024 * 1024)>>
WavAtLimit == <<File("song", "audio/wav", FileSizeLimit)>>
TooBig == <<File("song", "audio/mpeg", FileSizeLimit + 1)>>
TextFile == <<File("song", "text/plain", 1024)>>
TextTooBig == <<File("song", "text/plain", FileSizeLimit + 1)>>
WrongField == <<File("file", "audio/mpeg", 1024)>>

\* A request as it arrives: Content-Type, file part, body fields, :id.
Request(multipart, file, title, artist, id) ==
    [multipart |-> multipart, file |-> file, title |-> title,
     artist |-> artist, id |-> id]

\* The upload requests the model sends to POST /api/songs.
Uploads ==
    { Request(FALSE, NoFile, TestTitle, NoArtist, NoId),  \* a JSON body
      Request(FALSE, TooBig, NoTitle, NoArtist, NoId),    \* a raw body
      Request(TRUE, NoFile, TestTitle, NoArtist, NoId),
      Request(TRUE, WrongField, TestTitle, NoArtist, NoId),
      Request(TRUE, TextFile, TestTitle, NoArtist, NoId),
      Request(TRUE, TextTooBig, NoTitle, NoArtist, NoId),
      Request(TRUE, TooBig, TestTitle, Band, NoId),
      Request(TRUE, Mp3File, NoTitle, Band, NoId),
      Request(TRUE, Mp3File, EmptyTitle, NoArtist, NoId),
      Request(TRUE, Mp3File, BlankTitle, NoArtist, NoId),
      Request(TRUE, Mp3File, TestTitle, NoArtist, NoId),
      Request(TRUE, WavAtLimit, FullTitle, Band, NoId),
      Request(TRUE, Mp3File, LongTitle, NoArtist, NoId) }

\* The values of :id the model sends.
IdParams ==
    { Oid(n) : n \in 1..MaxUploads }
        \cup { IdStr(0, 12, FALSE), IdStr(1, 24, FALSE) }

\* The bodies the model sends to PUT /api/songs/:id.
Edits ==
    { <<NoTitle, Band>>, <<TestTitle, NoArtist>>, <<FullTitle, Band>>,
      <<LongTitle, NoArtist>> }

\* The media duration the Object Storage reports, in tenths of a second;
\* absent for a resource that has none.
Durations == { <<>>, <<2157>> }

\* Date.now() when a Song is constructed
Times == {1}

(***************************************************************************)
(* The Song schema.                                                        *)
(***************************************************************************)
Url(scheme, host, path) == [scheme |-> scheme, host |-> host, path |-> path]

\* the fileUrl validator: /^https?:\/\/.+/i
ValidUrl(v) == v.scheme \in {"http", "https"} /\ v.host # ""

\* Math.round in place of Math.floor
Round(tenths) == (tenths + 5) \div 10

\* Math.floor of a number given in tenths
Floor(tenths) == tenths \div 10

\* result.duration || 0
OrZero(o) == IF o = <<>> THEN 0 ELSE o[1]

\* schema validation of a document (save, and runValidators on update)
ValidTitle(t) == t # <<>> /\ StrLen(t[1]) > 0 /\ StrLen(t[1]) <= MaxTitleLen

ValidSong(doc) ==
    /\ ValidTitle(doc.title)
    /\ doc.publicId # <<>>
    /\ ValidUrl(doc.fileUrl)
    /\ doc.playCount >= 0
    /\ (doc.duration # <<>> => doc.duration[1] >= 0)

\* public_id: `songs/${uuidv4()}`
PublicId(uuid) == <<uuid>>

\* The result cloudinary.uploader.upload_stream calls back with.

UploadResult(uuid, duration) ==
    [public_id |-> PublicId(uuid),
     secure_url |-> Url("https", "res.cloudinary.com", PublicId(uuid)),
     duration |-> duration]

\* new Song({title, artist: artist || "Unknown", publicId, fileUrl, duration})
\* with the schema's setters and defaults applied
NewSong(oid, title, artist, result, now) ==
    [id |-> oid,
     title |-> <<Trim(title[1])>>,
     artist |-> IF Truthy(artist) THEN Trim(artist[1]) ELSE Unknown,
     publicId |-> result.public_id,
     fileUrl |-> result.secure_url,
     playCount |-> 0,
     duration |-> <<Floor(OrZero(result.duration))>>,
     createdAt |-> now]

(***************************************************************************)
(* State.                                                                  *)
(***************************************************************************)
VARIABLES
    songs,      \* the Song collection of the Metadata Store: a set of documents
    blobs,      \* the public ids the Object Storage holds
    reqs,       \* per connection, the request it carries and where it stands
    nextUuid,   \* the next uuidv4() value
    nextOid,    \* the next ObjectId the driver generates
    server,     \* the HTTP server: "listening", "closing", "closed"
    db,         \* the mongoose connection: "open", "closing", "closed"
    exited      \* process.exit has run

vars == <<songs, blobs, reqs, nextUuid, nextOid, server, db, exited>>

NoRequest == Request(FALSE, NoFile, NoTitle, NoArtist, NoId)

\* A connection with no request on it.
Idle ==
    [kind |-> "idle", pc |-> "idle", in |-> NoRequest,
     buffered |-> FALSE,     \* req.file holds the file's bytes
     uuid |-> 0,             \* the uuid of the public id asked for
     result |-> <<>>,        \* the upload's result
     doc |-> <<>>,           \* the document built or found
     calls |-> {},           \* the collaborator calls the handler has made
     thrown |-> "",          \* the call whose rejection the handler caught
     status |-> 0, msg |-> "", body |-> <<>>]

Arrived(kind, in) == [Idle EXCEPT !.kind = kind, !.pc = "start", !.in = in]

\* res.status(status).json({error: msg}) / res.status(status).json(body)
Respond(r, status, msg, body) ==
    [r EXCEPT !.pc = "done", !.status = status, !.msg = msg, !.body = body]

\* the handler makes a call and awaits it
Await(r, call) == [r EXCEPT !.pc = call, !.calls = @ \cup {call}]

Init ==
    /\ songs = {}
    /\ blobs = {}
    /\ reqs = [c \in Conns |-> Idle]
    /\ nextUuid = 1
    /\ nextOid = 1
    /\ server = "listening"
    /\ db = "open"
    /\ exited = FALSE

\* the cast of an id string to ObjectId that every query by id makes; a
\* string that does not cast makes the query reject with a CastError
castObjectId(id) == (id.len = 24 /\ id.hex) \/ id.len = 12

\* the documents Song.findById(id) matches
FindById(id) == { s \in songs : s.id = id.n /\ id.len = 24 /\ id.hex }

\* The outcomes of a Metadata Store call: it can succeed only on an open
\* connection, and it can fail on any.
StoreOutcomes == IF db = "open" THEN BOOLEAN ELSE {FALSE}

\* The requests in flight that will ask for a uuid and have not yet.
PendingUploads ==
    { c \in Conns : /\ reqs[c].kind = "post" /\ reqs[c].pc = "handler"
                    /\ reqs[c].buffered /\ Truthy(reqs[c].in.title) }

(***************************************************************************)
(* POST /api/songs                                                         *)
(***************************************************************************)
\* a filter that lets every type through
fileFilterAny(file) == TRUE

\* multer({storage: memoryStorage, limits, fileFilter}).single("song"):
\* the error it calls back with ("" for none)
fileFilter(file) == file.mimetype \in AllowedTypes

upload(in) ==
    IF ~in.multipart \/ in.file = NoFile THEN ""
    ELSE IF in.file[1].fieldname # "song" THEN "Unexpected field"
    ELSE IF ~fileFilter(in.file[1])
        THEN "Invalid file type. Only audio files are allowed."
    ELSE IF in.file[1].size > FileSizeLimit THEN "File too large"
    ELSE ""

\* middlewares/uploadValidation: the request passes when it is multipart
\* form data and carries a title that is a (non-empty) string
uploadValidation(in) == in.multipart /\ Truthy(in.title)

\* handleUploadErrors(err, req, res, next), called with an error
handleUploadErrors(r, err) == Respond(r, 400, err, <<>>)

\* the request arrives at the first handler of the route: upload, then
\* handleUploadErrors or next()
PostSongs(c, u) ==
    /\ ~exited /\ server = "listening"
    /\ reqs[c].pc = "idle"
    /\ (upload(u) = "" /\ u.multipart /\ u.file # NoFile /\ Truthy(u.title))
            => nextUuid + Cardinality(PendingUploads) <= MaxUploads
    /\ LET r == Arrived("post", u)
           err == upload(u)
       IN reqs' = [reqs EXCEPT ![c] =
                     IF err # "" THEN handleUploadErrors(r, err)
                     ELSE [r EXCEPT !.pc = "handler",
                                    !.buffered = u.multipart /\ u.file # NoFile]]
    /\ UNCHANGED <<songs, blobs, nextUuid, nextOid, server, db, exited>>

\* the second handler, up to await uploadToCloudinary(req.file.buffer)
PostHandler(c) ==
    /\ ~exited
    /\ reqs[c].kind = "post" /\ reqs[c].pc = "handler"
    /\ LET r == reqs[c] IN
        IF ~r.buffered
            THEN /\ reqs' = [reqs EXCEPT ![c] = Respond(r, 400, "No file uploaded", <<>>)]
                 /\ UNCHANGED nextUuid
        ELSE IF ~Truthy(r.in.title)
            THEN /\ reqs' = [reqs EXCEPT ![c] = Respond(r, 400, "Title is required", <<>>)]
                 /\ UNCHANGED nextUuid
        ELSE /\ reqs' = [reqs EXCEPT ![c] = [Await(r, "upload") EXCEPT !.uuid = nextUuid]]
             /\ nextUuid' = nextUuid + 1
    /\ UNCHANGED <<songs, blobs, nextOid, server, db, exited>>

\* the catch block of a handler, entered from the call it awaited
ServerError(r) == Respond([r EXCEPT !.thrown = r.pc], 500, "Server error", <<>>)

\* a handler that goes on to save whatever the upload did
AfterUploadUnchecked(r, result, oid, now) ==
    [Await(r, "save") EXCEPT
        !.result = result,
        !.doc = <<NewSong(oid, r.in.title, r.in.artist, UploadResult(r.uuid, <<>>), now)>>]

\* what the handler does when uploadToCloudinary settles, rejected (no
\* result) or resolved: its catch block, or new Song(...) and newSong.save()
AfterUpload(r, result, oid, now) ==
    IF result = <<>> THEN ServerError(r)
    ELSE [Await(r, "save") EXCEPT
            !.result = result,
            !.doc = <<NewSong(oid, r.in.title, r.in.artist, result[1], now)>>]

\* uploadToCloudinary settles
PostUploaded(c) ==
    /\ ~exited
    /\ reqs[c].kind = "post" /\ reqs[c].pc = "upload"
    /\ LET r == reqs[c] IN
        \E now \in Times :
            \/ /\ reqs' = [reqs EXCEPT ![c] = AfterUpload(r, <<>>, nextOid, now)]
               /\ UNCHANGED <<blobs, nextOid>>
            \/ \E d \in Durations :
                LET result == UploadResult(r.uuid, d) IN
                /\ blobs' = blobs \cup {result.public_id}
                /\ reqs' = [reqs EXCEPT ![c] = AfterUpload(r, <<result>>, nextOid, now)]
                /\ nextOid' = nextOid + 1
    /\ UNCHANGED <<songs, nextUuid, server, db, exited>>

\* newSong.save() settles
PostSaved(c) ==
    /\ ~exited
    /\ reqs[c].kind = "post" /\ reqs[c].pc = "save"
    /\ LET r == reqs[c] IN
        \E ok \in StoreOutcomes :
            IF ok /\ ValidSong(r.doc[1])
                THEN /\ songs' = songs \cup {r.doc[1]}
                     /\ reqs' = [reqs EXCEPT ![c] = Respond(r, 201, "", r.doc)]
                ELSE /\ reqs' = [reqs EXCEPT ![c] = ServerError(r)]
                     /\ UNCHANGED songs
    /\ UNCHANGED <<blobs, nextUuid, nextOid, server, db, exited>>

(***************************************************************************)
(* GET /api/songs/:id                                                      *)
(***************************************************************************)
WithId(id) == [NoRequest EXCEPT !.id = id]

NotFound(r) == Respond(r, 404, "Song not found", <<>>)

InvalidId(r) == Respond(r, 400, "Invalid song ID", <<>>)

\* the handler up to await Song.findById
GetSong(c, id) ==
    /\ ~exited /\ server = "listening"
    /\ reqs[c].pc = "idle"
    /\ LET r == Arrived("get", WithId(id)) IN
        reqs' = [reqs EXCEPT ![c] =
                   IF ~isValid(id) THEN InvalidId(r) ELSE Await(r, "findById")]
    /\ UNCHANGED <<songs, blobs, nextUuid, nextOid, server, db, exited>>

GetFound(c) ==
    /\ ~exited
    /\ reqs[c].kind = "get" /\ reqs[c].pc = "findById"
    /\ LET r == reqs[c]
           song == FindById(r.in.id)
       IN \E ok \in StoreOutcomes :
            reqs' = [reqs EXCEPT ![c] =
                       IF ~ok \/ ~castObjectId(r.in.id) THEN ServerError(r)
                       ELSE IF song = {} THEN NotFound(r)
                       ELSE Respond(r, 200, "", <<CHOOSE s \in song : TRUE>>)]
    /\ UNCHANGED <<songs, blobs, nextUuid, nextOid, server, db, exited>>

(***************************************************************************)
(* PUT /api/songs/:id                                                      *)
(***************************************************************************)
\* an update that replaces the document, its counter back at the default
ReplaceOnUpdate(s, title, artist) ==
    [s EXCEPT !.title = <<Trim(title[1])>>,
              !.artist = IF Truthy(artist) THEN Trim(artist[1]) ELSE Unknown,
              !.playCount = 0]

\* the update document {title, artist: artist || "Unknown"} applied to a
\* stored document, with the schema's setters
ApplyUpdate(s, title, artist) ==
    [s EXCEPT !.title = <<Trim(title[1])>>,
              !.artist = IF Truthy(artist) THEN Trim(artist[1]) ELSE Unknown]

\* the handler up to await Song.findByIdAndUpdate
PutSong(c, id, e) ==
    /\ ~exited /\ server = "listening"
    /\ reqs[c].pc = "idle"
    /\ LET r == Arrived("put", [WithId(id) EXCEPT !.title = e[1], !.artist = e[2]]) IN
        reqs' = [reqs EXCEPT ![c] =
                   IF ~isValid(id) THEN InvalidId(r)
                   ELSE IF ~Truthy(e[1]) THEN Respond(r, 400, "Title is required", <<>>)
                   ELSE Await(r, "findByIdAndUpdate")]
    /\ UNCHANGED <<songs, blobs, nextUuid, nextOid, server, db, exited>>

\* findByIdAndUpdate(id, update, {new: true, runValidators: true}) settles
PutUpdated(c) ==
    /\ ~exited
    /\ reqs[c].kind = "put" /\ reqs[c].pc = "findByIdAndUpdate"
    /\ LET r == reqs[c]
           song == FindById(r.in.id)
       IN \E ok \in StoreOutcomes :
            IF ~ok \/ ~castObjectId(r.in.id) \/ ~ValidTitle(<<Trim(r.in.title[1])>>)
                THEN /\ reqs' = [reqs EXCEPT ![c] = ServerError(r)]
                     /\ UNCHANGED songs
            ELSE IF song = {}
                THEN /\ reqs' = [reqs EXCEPT ![c] = NotFound(r)]
                     /\ UNCHANGED songs
            ELSE LET old == CHOOSE s \in song : TRUE
                     new == ApplyUpdate(old, r.in.title, r.in.artist)
                 IN /\ songs' = (songs \ {old}) \cup {new}
                    /\ reqs' = [reqs EXCEPT ![c] = Respond(r, 200, "", <<new>>)]
    /\ UNCHANGED <<blobs, nextUuid, nextOid, server, db, exited>>

(***************************************************************************)
(* DELETE /api/songs/:id                                                   *)
(***************************************************************************)
\* the handler up to await Song.findById
DeleteSong(c, id) ==
    /\ ~exited /\ server = "listening"
    /\ reqs[c].pc = "idle"
    /\ LET r == Arrived("delete", WithId(id)) IN
        reqs' = [reqs EXCEPT ![c] =
                   IF ~isValid(id) THEN InvalidId(r) ELSE Await(r, "findById")]
    /\ UNCHANGED <<songs, blobs, nextUuid, nextOid, server, db, exited>>

\* findById settles: on to cloudinary.uploader.destroy(song.publicId)
DeleteFound(c) ==
    /\ ~exited
    /\ reqs[c].kind = "delete" /\ reqs[c].pc = "findById"
    /\ LET r == reqs[c]
           song == FindById(r.in.id)
       IN \E ok \in StoreOutcomes :
            reqs' = [reqs EXCEPT ![c] =
                       IF ~ok \/ ~castObjectId(r.in.id) THEN ServerError(r)
                       ELSE IF song = {} THEN NotFound(r)
                       ELSE LET s == CHOOSE s \in song : TRUE IN
                            IF s.publicId # <<>>
                                THEN [Await(r, "destroy") EXCEPT !.doc = <<s>>]
                                ELSE [Await(r, "findByIdAndDelete") EXCEPT !.doc = <<s>>]]
    /\ UNCHANGED <<songs, blobs, nextUuid, nextOid, server, db, exited>>

\* a handler without the inner try/catch: a rejected destroy reaches the
\* outer catch block
AfterDestroyUncaught(r, resolved) ==
    IF resolved THEN Await(r, "findByIdAndDelete")
    ELSE Respond([r EXCEPT !.thrown = r.pc], 500, "Server error", <<>>)

\* what the handler does when destroy settles, resolved or rejected: the
\* inner catch logs, and the handler goes on to Song.findByIdAndDelete
AfterDestroy(r, resolved) == Await(r, "findByIdAndDelete")

DeleteDestroyed(c) ==
    /\ ~exited
    /\ reqs[c].kind = "delete" /\ reqs[c].pc = "destroy"
    /\ LET r == reqs[c] IN
        \E resolved \in BOOLEAN :
            /\ blobs' = IF resolved THEN blobs \ {r.doc[1].publicId} ELSE blobs
            /\ reqs' = [reqs EXCEPT ![c] =
                          [AfterDestroy(r, resolved) EXCEPT
                              !.result = IF resolved THEN <<"ok">> ELSE <<"error">>]]
    /\ UNCHANGED <<songs, nextUuid, nextOid, server, db, exited>>

\* findByIdAndDelete settles
DeleteDeleted(c) ==
    /\ ~exited
    /\ reqs[c].kind = "delete" /\ reqs[c].pc = "findByIdAndDelete"
    /\ LET r == reqs[c] IN
        \E ok \in StoreOutcomes :
            IF ~ok \/ ~castObjectId(r.in.id)
                THEN /\ reqs' = [reqs EXCEPT ![c] = ServerError(r)]
                     /\ UNCHANGED songs
                ELSE /\ songs' = songs \ FindById(r.in.id)
                     /\ reqs' = [reqs EXCEPT ![c] =
                                   Respond(r, 200, "Song deleted successfully", <<>>)]
    /\ UNCHANGED <<blobs, nextUuid, nextOid, server, db, exited>>

(***************************************************************************)
(* PUT /api/songs/play/:id                                                 *)
(***************************************************************************)
\* a read-modify-write from a stale read in place of $inc
SetPlayCount(s) == [s EXCEPT !.playCount = 1]

\* {$inc: {playCount: 1}} applied to a stored document
IncPlayCount(s) == [s EXCEPT !.playCount = @ + 1]

\* the increments on the document of ObjectId id already applied or in flight
PlaysOn(id) ==
    (IF FindById(id) = {} THEN 0 ELSE (CHOOSE s \in FindById(id) : TRUE).playCount)
        + Cardinality({ c \in Conns : /\ reqs[c].kind = "play"
                                      /\ reqs[c].pc = "findByIdAndUpdate"
                                      /\ reqs[c].in.id = id })

\* the handler up to await Song.findByIdAndUpdate
PlaySong(c, id) ==
    /\ ~exited /\ server = "listening"
    /\ reqs[c].pc = "idle"
    /\ isValid(id) => PlaysOn(id) < MaxPlays
    /\ LET r == Arrived("play", WithId(id)) IN
        reqs' = [reqs EXCEPT ![c] =
                   IF ~isValid(id) THEN InvalidId(r) ELSE Await(r, "findByIdAndUpdate")]
    /\ UNCHANGED <<songs, blobs, nextUuid, nextOid, server, db, exited>>

\* findByIdAndUpdate(id, {$inc: {playCount: 1}}, {new: true}) settles
PlayIncremented(c) ==
    /\ ~exited
    /\ reqs[c].kind = "play" /\ reqs[c].pc = "findByIdAndUpdate"
    /\ LET r == reqs[c]
           song == FindById(r.in.id)
       IN \E ok \in StoreOutcomes :
            IF ~ok \/ ~castObjectId(r.in.id)
                THEN /\ reqs' = [reqs EXCEPT ![c] = ServerError(r)]
                     /\ UNCHANGED songs
            ELSE IF song = {}
                THEN /\ reqs' = [reqs EXCEPT ![c] = NotFound(r)]
                     /\ UNCHANGED songs
            ELSE LET old == CHOOSE s \in song : TRUE
                     new == IncPlayCount(old)
                 IN /\ songs' = (songs \ {old}) \cup {new}
                    /\ reqs' = [reqs EXCEPT ![c] = Respond(r, 200, "", <<new>>)]
    /\ UNCHANGED <<blobs, nextUuid, nextOid, server, db, exited>>

(***************************************************************************)
(* The server and its shutdown.                                            *)
(***************************************************************************)
\* the response is out and the connection ends
Finish(c) ==
    /\ ~exited
    /\ reqs[c].pc = "done"
    /\ reqs' = [reqs EXCEPT ![c] = Idle]
    /\ UNCHANGED <<songs, blobs, nextUuid, nextOid, server, db, exited>>

\* a close that does not wait for the connections
DrainedAny == TRUE

\* server.close's condition for emitting 'close': no connection is left
Drained == \A c \in Conns : reqs[c].pc = "idle"

\* process.on("SIGTERM"): server.close(callback).  A second SIGTERM finds
\* the server closing and changes nothing.
Sigterm ==
    /\ ~exited
    /\ server = "listening"
    /\ server' = "closing"
    /\ UNCHANGED <<songs, blobs, reqs, nextUuid, nextOid, db, exited>>

\* the server emits 'close'; the callback calls mongoose.connection.close
ServerClosed ==
    /\ ~exited
    /\ server = "closing"
    /\ Drained
    /\ server' = "closed"
    /\ db' = "closing"
    /\ UNCHANGED <<songs, blobs, reqs, nextUuid, nextOid, exited>>

\* the connection to the store is closed
DbClosed ==
    /\ ~exited
    /\ db = "closing"
    /\ db' = "closed"
    /\ UNCHANGED <<songs, blobs, reqs, nextUuid, nextOid, server, exited>>

\* the callback of mongoose.connection.close: process.exit(0)
Exit ==
    /\ ~exited
    /\ server = "closed" /\ db = "closed"
    /\ exited' = TRUE
    /\ UNCHANGED <<songs, blobs, reqs, nextUuid, nextOid, server, db>>


Next ==
    \/ \E c \in Conns, u \in Uploads : PostSongs(c, u)
    \/ \E c \in Conns : PostHandler(c)
    \/ \E c \in Conns : PostUploaded(c)
    \/ \E c \in Conns : PostSaved(c)
    \/ \E c \in Conns, id \in IdParams : GetSong(c, id)
    \/ \E c \in Conns : GetFound(c)
    \/ \E c \in Conns, id \in IdParams, e \in Edits : PutSong(c, id, e)
    \/ \E c \in Conns : PutUpdated(c)
    \/ \E c \in Conns, id \in IdParams : DeleteSong(c, id)
    \/ \E c \in Conns : DeleteFound(c)
    \/ \E c \in Conns : DeleteDestroyed(c)
    \/ \E c \in Conns : DeleteDeleted(c)
    \/ \E c \in Conns, id \in IdParams : PlaySong(c, id)
    \/ \E c \in Conns : PlayIncremented(c)
    \/ \E c \in Conns : Finish(c)
    \/ Sigterm
    \/ ServerClosed
    \/ DbClosed
    \/ Exit

Spec == Init /\ [][Next]_vars

\* The steps that are callbacks of the event loop: a call that was awaited
\* settles, a response goes out, the server or the connection closes.  The
\* arrival of a request and of SIGTERM are the environment's.
Callback(c) ==
    \/ PostHandler(c) \/ PostUploaded(c) \/ PostSaved(c)
    \/ GetFound(c) \/ PutUpdated(c)
    \/ DeleteFound(c) \/ DeleteDestroyed(c) \/ DeleteDeleted(c)
    \/ PlayIncremented(c)
    \/ Finish(c)

\* Every callback that is pending is run in the end.
FairSpec ==
    /\ Spec
    /\ \A c \in Conns : WF_vars(Callback(c))
    /\ WF_vars(ServerClosed) /\ WF_vars(DbClosed) /\ WF_vars(Exit)

(***************************************************************************)
(* Properties.                                                             *)
(***************************************************************************)
Posts == { c \in Conns : reqs[c].kind = "post" }

ById == { c \in Conns : reqs[c].kind \in {"get", "put", "delete", "play"} }

\* the upload the request made was rejected
UploadFailed(r) == "upload" \in r.calls /\ r.pc # "upload" /\ r.result = <<>>

\* What an upload request holds at each point: save is called only with the
\* result of its own resolved upload in hand, and the document is built
\* from that result; a request whose upload was rejected is answered 500
\* and has neither built nor saved a document.
C1_SavedOnlyAfterUpload ==
    \A c \in Posts :
        LET r == reqs[c] IN
        /\ "save" \in r.calls =>
            /\ "upload" \in r.calls /\ r.result # <<>>
            /\ r.pc = "save" => r.result[1].public_id \in blobs
            /\ r.doc[1].publicId = r.result[1].public_id
            /\ r.doc[1].fileUrl = r.result[1].secure_url
        /\ r.status = 201 => "save" \in r.calls /\ r.body = r.doc
        /\ UploadFailed(r) =>
            /\ r.pc = "done" /\ r.status = 500
            /\ "save" \notin r.calls /\ r.doc = <<>> /\ r.body = <<>>
            /\ \A s \in songs : s.publicId # PublicId(r.uuid)

\* C1: POST /api/songs writes a Song to the Metadata Store only after the
\* upload of the same request has resolved, with the publicId and fileUrl of
\* that upload's result (every document that enters the collection is the
\* one such a request built); when the upload is rejected no Song is
\* created, the collection is left as it is, and the answer is 500.
C1_UploadThenPersist ==
    /\ []C1_SavedOnlyAfterUpload
    /\ [][/\ \A s \in songs' :
                (\A t \in songs : t.id # s.id) =>
                    \E c \in Posts : /\ reqs[c].pc = "save"
                                     /\ reqs'[c].status = 201
                                     /\ reqs[c].doc = <<s>>
          /\ \A c \in Posts :
                (reqs[c].pc = "upload" /\ reqs'[c].pc # "upload" /\ reqs'[c].result = <<>>)
                    => reqs'[c].status = 500 /\ songs' = songs]_vars

\* an upload was resolved and its document saved
C1_Witness ==
    \E c \in Posts :
        /\ reqs[c].status = 201 /\ reqs[c].body[1] \in songs
        /\ reqs[c].body[1].publicId = reqs[c].result[1].public_id

\* an upload was rejected and the request answered 500
C1_FailedUploadSeen ==
    \E c \in Posts : UploadFailed(reqs[c]) /\ reqs[c].status = 500 /\ songs = {}

\* a file larger than 25 MB, or of a type that is not accepted
BadFile(in) ==
    /\ in.file # NoFile
    /\ \/ in.file[1].size > 25 * 1024 * 1024
       \/ in.file[1].mimetype \notin {"audio/mpeg", "audio/wav", "audio/mp3", "audio/aac"}

\* C2: an upload whose file is larger than the size limit (25 MB) or of a
\* type that is not accepted is answered 400, without any call to the
\* Object Storage or the Metadata Store and without a document being built.
C2_BadFileRejected ==
    \A c \in Posts :
        LET r == reqs[c] IN
        BadFile(r.in) =>
            /\ r.pc \in {"handler", "done"}
            /\ r.pc = "done" => r.status = 400
            /\ r.calls = {} /\ r.doc = <<>> /\ r.body = <<>>
            /\ ~r.buffered

\* a file over the limit and a file of a wrong type have been answered 400
C2_Witness ==
    /\ \E c \in Posts : /\ reqs[c].in.file = TooBig /\ reqs[c].in.multipart
                        /\ reqs[c].status = 400 /\ reqs[c].msg = "File too large"
    /\ \E c \in Posts : /\ reqs[c].in.file = TextFile
                        /\ reqs[c].status = 400

\* the increment request on c, for the document of id, is answered 200
PlayAnswered(c, id) ==
    /\ reqs[c].kind = "play" /\ reqs[c].in.id = id
    /\ reqs[c].pc = "done" /\ reqs[c].status = 200

\* no two answered increments of one document report the same count, and
\* none reports more than the document holds
C3_DistinctCounts ==
    \A c, d \in Conns :
        \A s \in songs :
            PlayAnswered(c, Oid(s.id)) =>
                /\ reqs[c].body[1].playCount \in 1..s.playCount
                /\ (d # c /\ PlayAnswered(d, Oid(s.id)))
                        => reqs[d].body[1].playCount # reqs[c].body[1].playCount

\* C3: every step changes a document's playCount by exactly the number of
\* increment requests on it that are answered 200 in that step (so N such
\* requests add exactly N, in any interleaving) and never lowers it; no two
\* answered increments of one document report the same count.
C3_NoLostUpdate ==
    /\ []C3_DistinctCounts
    /\ [][\A s \in songs : \A t \in songs' :
            t.id = s.id =>
                /\ t.playCount >= s.playCount
                /\ t.playCount = s.playCount + Cardinality(
                        { c \in Conns : /\ reqs[c].kind = "play"
                                        /\ reqs[c].pc = "findByIdAndUpdate"
                                        /\ reqs[c].in.id = Oid(s.id)
                                        /\ reqs'[c].status = 200 })]_vars

\* two increments of one document, in flight together, are both answered
C3_Witness ==
    \E s \in songs :
        /\ s.playCount = 2
        /\ PlayAnswered(1, Oid(s.id)) /\ PlayAnswered(2, Oid(s.id))

Deletes == { c \in Conns : reqs[c].kind = "delete" }

\* C4: DELETE of a document that exists calls the blob delete before the
\* store delete; when the blob delete is rejected the handler still calls
\* the store delete, the rejection is not what the caller is answered
\* with, and once the store delete has gone through the document is gone
\* and the answer is 200.
C4_BlobFailureTolerated ==
    \A c \in Deletes :
        LET r == reqs[c] IN
        /\ "findByIdAndDelete" \in r.calls =>
                "destroy" \in r.calls /\ r.result # <<>> /\ r.doc # <<>>
        /\ r.result = <<"error">> =>
            /\ "findByIdAndDelete" \in r.calls
            /\ r.thrown \in {"", "findByIdAndDelete"}
            /\ (r.pc = "done" /\ r.thrown = "") =>
                    r.status = 200 /\ FindById(r.in.id) = {}

\* a blob delete was rejected, and the request is answered 200 with the
\* document gone and the blob still stored
C4_Witness ==
    \E c \in Deletes :
        /\ reqs[c].result = <<"error">>
        /\ reqs[c].status = 200
        /\ reqs[c].doc[1].publicId \in blobs
        /\ FindById(reqs[c].in.id) = {}

\* C5: get, update, delete and increment answer an id that is not
\* well-formed with 400 (not 404, not 500) and make no call to the
\* Metadata Store or the Object Storage.
C5_MalformedIdIs400 ==
    \A c \in ById :
        LET r == reqs[c] IN
        ~castObjectId(r.in.id) =>
            /\ r.pc = "done" /\ r.status = 400 /\ r.msg = "Invalid song ID"
            /\ r.calls = {} /\ r.thrown = "" /\ r.doc = <<>>

\* each of the four operations has answered a malformed id
C5_Witness ==
    \E c \in ById :
        /\ ~castObjectId(reqs[c].in.id) /\ reqs[c].status = 400
        /\ \E d \in ById :
            /\ reqs[d].kind # reqs[c].kind
            /\ ~castObjectId(reqs[d].in.id) /\ reqs[d].status = 400

\* a title that is missing, empty, or longer than 100 characters
BadTitle(t) == t = <<>> \/ StrLen(t[1]) = 0 \/ StrLen(t[1]) > 100

\* C6 (as claimed): an upload whose title is missing, empty or longer than
\* 100 characters is answered 400 before any call to the Object Storage or
\* the Metadata Store.
C6_BadTitleRejectedBeforeIO ==
    \A c \in Posts :
        LET r == reqs[c] IN
        BadTitle(r.in.title) =>
            /\ r.calls = {}
            /\ r.pc = "done" => r.status = 400

\* C7 (as claimed): an upload that fails the Upload Validator's check is
\* answered 400 without its file having been buffered and without any call
\* to the Object Storage or the Metadata Store.
C7_ValidatedBeforeBuffering ==
    \A c \in Posts :
        LET r == reqs[c] IN
        ~uploadValidation(r.in) =>
            /\ ~r.buffered
            /\ r.calls = {}
            /\ r.pc = "done" => r.status = 400

\* the Song of the answer has the result's public id and URL, playCount 0
\* and the duration given
Stored(r, duration) ==
    /\ r.body[1].publicId = r.result[1].public_id
    /\ r.body[1].fileUrl = r.result[1].secure_url
    /\ r.body[1].playCount = 0
    /\ r.body[1].duration = duration

\* C8 (as claimed): the Song of a 201 answer has the result's public id
\* and URL, playCount 0 and the floor of the result's duration, and no
\* duration when the result has none.
C8_DurationUnsetWhenAbsent ==
    \A c \in Posts :
        LET r == reqs[c] IN
        r.status = 201 =>
            Stored(r, IF r.result[1].duration = <<>> THEN <<>>
                      ELSE <<r.result[1].duration[1] \div 10>>)

\* C8 (amended): the Song of a 201 answer has the result's public id and
\* URL, playCount 0 and the floor of the result's duration, and duration 0
\* when the result has none.
C8_DurationZeroWhenAbsent ==
    \A c \in Posts :
        LET r == reqs[c] IN
        r.status = 201 =>
            Stored(r, IF r.result[1].duration = <<>> THEN <<0>>
                      ELSE <<r.result[1].duration[1] \div 10>>)

\* a Song was saved from a result without a duration, and is in the store
C8_Witness ==
    \E c \in Posts :
        /\ reqs[c].status = 201
        /\ reqs[c].result[1].duration = <<>>
        /\ reqs[c].body[1].duration = <<0>>
        /\ reqs[c].body[1] \in songs

\* a Song was saved from a result with a fractional duration
C8_FlooredSeen ==
    \E c \in Posts :
        /\ reqs[c].status = 201
        /\ reqs[c].result[1].duration = <<2157>>
        /\ reqs[c].body[1].duration = <<215>>

NoneInFlight == \A c \in Conns : reqs[c].kind = "idle"

\* the store connection is open while a request is in flight, and the
\* process runs until it is closed
C9_Order ==
    /\ db # "open" => server = "closed" /\ NoneInFlight
    /\ exited => db = "closed"

\* C9: once SIGTERM has come no new request is taken; a request leaves its
\* connection only with its response sent; the store connection is closed
\* only after the server has closed with no request left in flight; the
\* process exits only after the store connection is closed; and, every
\* pending callback being run in the end, a shutdown that has begun goes
\* through to the exit.
C9_GracefulShutdown ==
    /\ []C9_Order
    /\ [][/\ \A c \in Conns :
                /\ (server # "listening" /\ reqs[c].kind = "idle")
                        => reqs'[c].kind = "idle"
                /\ (reqs[c].kind # "idle" /\ reqs'[c].kind = "idle")
                        => reqs[c].pc = "done" /\ reqs[c].status # 0
          /\ (server = "listening" /\ server' # "listening") => server' = "closing"
          /\ (db = "open" /\ db' # "open") => server = "closing" /\ NoneInFlight
          /\ (~exited /\ exited') => db = "closed"]_vars
    /\ (server = "closing") ~> exited

\* SIGTERM has come with two requests in flight: one has its response, the
\* other is still awaiting the store, whose connection is open
C9_Witness ==
    /\ server = "closing" /\ db = "open"
    /\ \E c, d \in Conns :
        /\ reqs[c].pc = "done" /\ reqs[c].status = 200
        /\ reqs[d].pc \in {"findById", "findByIdAndUpdate", "findByIdAndDelete", "save"}

\* the process has exited after a shutdown
C9_ExitSeen == exited /\ db = "closed" /\ server = "closed"

\* the request of that kind on c, for the document of id, is answered 200
\* in this step
Answered(c, kind, id) ==
    /\ reqs[c].kind = kind /\ reqs[c].in.id = id
    /\ reqs[c].pc = "findByIdAndUpdate" /\ reqs'[c].status = 200

\* C10: a document keeps its id, createdAt, publicId and fileUrl through
\* every update and increment; an update changes only title and artist,
\* and an increment only playCount.
C10_Frame ==
    [][\A s \in songs : \A t \in songs' :
        t.id = s.id =>
            /\ t.createdAt = s.createdAt
            /\ t.publicId = s.publicId
            /\ t.fileUrl = s.fileUrl
            /\ t.duration = s.duration
            /\ (\E c \in Conns : Answered(c, "put", Oid(s.id)))
                    => t.playCount = s.playCount
            /\ (\E c \in Conns : Answered(c, "play", Oid(s.id)))
                    => t.title = s.title /\ t.artist = s.artist
            /\ (\A c \in Conns : ~Answered(c, "put", Oid(s.id))
                              /\ ~Answered(c, "play", Oid(s.id)))
                    => t = s]_vars

\* a document that has been played and then retitled
C10_Witness ==
    \E s \in songs :
        /\ s.playCount > 0
        /\ s.title = <<Trim(FullTitle[1])>>
        /\ \E c \in Conns :
            /\ reqs[c].kind = "put" /\ reqs[c].status = 200
            /\ reqs[c].body = <<s>>
====
